---- MODULE Spec2Model ----
(***************************************************************************)
(* Model of src/scripts/document_items_repo_itemyear_mismatch.ts: the      *)
(* checkpointed batch scan that compares the bodyOfKnowledge of the        *)
(* repository a DocumentItems row belongs to with the bodies recorded for  *)
(* its item in ItemYearDimensionValues.                                    *)
(*                                                                         *)
(* A behaviour is a sequence of process launches ("runs") of the script    *)
(* over one fixed database snapshot; the two files of the script (the      *)
(* checkpoint JSON and the Markdown report) persist between the runs.      *)
(*                                                                         *)
(* Conventions.  Primary keys (_id of DocumentItems) are the naturals      *)
(* 1..NumRows in their sort order; 0 stands for undefined.  A JavaScript   *)
(* Set or Array is a sequence in insertion order (a Set has no duplicate). *)
(* -1 stands for an absent --max-batches, 0 for an absent date flag.       *)
(***************************************************************************)
EXTENDS Integers, Sequences, FiniteSets, TLC

(* ------------------------------------------------------------------ *)
(* Bounds of the model                                                *)
(* ------------------------------------------------------------------ *)

\* rows of the DocumentItems snapshot
NumRows == 4
\* process launches in one behaviour
MaxRuns == 2
\* the program's constants, scaled down so that the model reaches them:
\* the source has SAMPLE_LIMIT = 20, BATCH_SIZE = 5000 and
\* CHECKPOINT_SAVE_INTERVAL = 5 (lines 13-15)
SAMPLE_LIMIT == 2
BATCH_SIZE == 2
CHECKPOINT_SAVE_INTERVAL == 2

(* ------------------------------------------------------------------ *)
(* JavaScript containers                                              *)
(* ------------------------------------------------------------------ *)

Range(s) == {s[i] : i \in 1..Len(s)}

\* Set.prototype.add: insertion order, no duplicate
SetAdd(s, x) == IF x \in Range(s) THEN s ELSE Append(s, x)

RECURSIVE NewSet(_)
\* new Set(list)
NewSet(list) ==
    IF list = <<>> THEN <<>>
    ELSE SetAdd(NewSet(SubSeq(list, 1, Len(list) - 1)), list[Len(list)])

\* Array.from(set)
ArrayFrom(set) == set

\* Map.prototype.get(key) || ''  on a map kept as a function
MapGetOrEmpty(map, key) == IF key \in DOMAIN map THEN map[key] ELSE ""

(* ------------------------------------------------------------------ *)
(* The database snapshot                                              *)
(* ------------------------------------------------------------------ *)

\* DocumentRepositories: _id, bodyOfKnowledgeId ("" when the field is absent)
DocumentRepositories ==
    << [_id |-> "R1", bodyOfKnowledgeId |-> "bodyA"],
       [_id |-> "R2", bodyOfKnowledgeId |-> "bodyB"],
       [_id |-> "R3", bodyOfKnowledgeId |-> ""] >>

\* Documents: _id, documentRepoId ("" when the field is absent)
Documents ==
    << [_id |-> "Doc1", documentRepoId |-> "R1"],
       [_id |-> "Doc2", documentRepoId |-> "R2"],
       [_id |-> "Doc3", documentRepoId |-> "R3"],
       [_id |-> "Doc4", documentRepoId |-> ""] >>

\* ItemYearDimensionValues: itemId, bodyOfKnowledgeId ("" when absent)
ItemYearDimensionValues ==
    << [itemId |-> "Ia", bodyOfKnowledgeId |-> "bodyA"],
       [itemId |-> "Ib", bodyOfKnowledgeId |-> "bodyB"],
       [itemId |-> "Id", bodyOfKnowledgeId |-> "bodyB"],
       [itemId |-> "Id", bodyOfKnowledgeId |-> "bodyC"],
       [itemId |-> "Ie", bodyOfKnowledgeId |-> ""] >>

\* The (itemId, documentId) pairs a row of DocumentItems is drawn from: a
\* consistent row and two violating rows of different items.
RowKinds ==
    { [itemId |-> "Ia", documentId |-> "Doc1"],
      [itemId |-> "Ib", documentId |-> "Doc1"],
      [itemId |-> "Id", documentId |-> "Doc1"] }

\* Every kind of row: those of RowKinds, rows consistent and violating in
\* repository R2, and the rows that lack a relating field: an item with no
\* ItemYearDimensionValues row, an item whose only row has no body, a row with
\* no itemId, a row with no documentId, a document whose repository has no
\* body, a document with no repository.
ClassifyRowKinds ==
    RowKinds \cup
    { [itemId |-> "Ib", documentId |-> "Doc2"],
      [itemId |-> "Ia", documentId |-> "Doc2"],
      [itemId |-> "Ic", documentId |-> "Doc2"],
      [itemId |-> "Ie", documentId |-> "Doc1"],
      [itemId |-> "",   documentId |-> "Doc1"],
      [itemId |-> "Ib", documentId |-> ""],
      [itemId |-> "Ib", documentId |-> "Doc3"],
      [itemId |-> "Ib", documentId |-> "Doc4"] }

\* the readings of the wall clock
Times == {1, 2}

\* addedOn of the row with key k: not monotone in the key
AddedOn(k) == ((2 * k) % 3) + 1

(* ------------------------------------------------------------------ *)
(* State                                                              *)
(* ------------------------------------------------------------------ *)

VARIABLES
    DocumentItems,      \* the primary collection: DocumentItems[k] is the row with key k
    checkpointFile,     \* outputs/..._checkpoint.json: [state, data]
    outputFile,         \* outputs/document_items_repo_itemyear_mismatch.md
    now,                \* the wall clock, as new Date().toLocaleString prints it
    pc,                 \* position of the running process; "done" when none runs
    args,               \* the flags of the run: maxBatches, finalizeOnly, startDate, endDate
    checkpoint,         \* what loadCheckpoint returned: [present, data]
    reasonStats,        \* Map reason -> {count, itemIds}
    allItemIds,         \* Set of itemIds with a violation
    samples,            \* SampleRow[]
    documentItemCount,  \* number of violating rows
    repoBodyMap,        \* Map repository id -> bodyOfKnowledgeId
    documentRepoMap,    \* Map document id -> repository id
    batchIndex,         \* non-empty batches processed in this run
    batchesSinceSave,
    lastProcessedId,    \* key of the last absorbed row (0: undefined)
    batchRows,          \* DocumentItemRow[] of the batch being accumulated
    batchItemIds,       \* Set of the distinct itemIds of batchRows
    cursor,             \* keys the DocumentItems cursor has still to yield
    saving,             \* the save in progress: [kind, data]
    \* history variables, for the properties only
    trace,              \* the I/O events of the run, in order
    absorbed,           \* keys absorbed by the run, in order
    classified,         \* keys handed to the classification of processBatch, in order
    batches,            \* every (rows, itemIds) handed to processBatch in the run
    outcome,            \* how the run ended ("running" while it has not)
    runs,               \* number of processes launched so far
    prevRun,            \* summary of the latest process that has exited
    startFiles,         \* the two files as the run found them
    lastSave            \* [before, data]: the file before the latest save began, and what was saved

memory == <<checkpoint, reasonStats, allItemIds, samples, documentItemCount,
            repoBodyMap, documentRepoMap, batchIndex, batchesSinceSave,
            lastProcessedId, batchRows, batchItemIds, cursor, saving>>
aggregates == <<reasonStats, allItemIds, samples, documentItemCount>>
scanState == <<batchIndex, batchesSinceSave, lastProcessedId, batchRows,
               batchItemIds, cursor>>
refMaps == <<repoBodyMap, documentRepoMap>>
files == <<checkpointFile, outputFile>>
history == <<trace, absorbed, classified, batches, outcome, runs, prevRun, startFiles,
             lastSave>>
vars == <<DocumentItems, now, pc, args, memory, files, history>>

(* ------------------------------------------------------------------ *)
(* Checkpoint file                                                    *)
(* ------------------------------------------------------------------ *)

\* the only reason the script reports (line 232)
MismatchReason == "repoBodyNotInItemYearBodies"

\* a Checkpoint with nothing in it
EmptyCheckpoint ==
    [lastDocumentItemId |-> 0, documentItemCount |-> 0, allItemIds |-> <<>>,
     reasonStats |-> <<>>, samples |-> <<>>]

AbsentFile == [state |-> "absent", data |-> EmptyCheckpoint]

\* loadCheckpoint: null when the file is absent or blank, the parsed JSON
\* otherwise; JSON.parse throws on a truncated document
loadCheckpoint(file) ==
    CASE file.state = "absent"  -> [result |-> "null", data |-> EmptyCheckpoint]
      [] file.state = "empty"   -> [result |-> "null", data |-> EmptyCheckpoint]
      [] file.state = "partial" -> [result |-> "throw", data |-> EmptyCheckpoint]
      [] OTHER                  -> [result |-> "ok", data |-> file.data]

\* the Checkpoint literal built for a save (lines 298-310 and 325-337)
CheckpointData(last, count, itemIds, stats, smp) ==
    [lastDocumentItemId |-> last,
     documentItemCount  |-> count,
     allItemIds         |-> ArrayFrom(itemIds),
     reasonStats        |-> [i \in 1..Len(stats) |->
                                [reason  |-> stats[i].reason,
                                 count   |-> stats[i].count,
                                 itemIds |-> ArrayFrom(stats[i].itemIds)]],
     samples            |-> smp]

\* mutant: the reason statistics start empty
RestoreReasonStatsEmpty(ck) == <<>>

\* reasonStats rebuilt from a loaded checkpoint (lines 87-93)
RestoreReasonStats(ck) ==
    [i \in 1..Len(ck.reasonStats) |->
        [reason  |-> ck.reasonStats[i].reason,
         count   |-> ck.reasonStats[i].count,
         itemIds |-> NewSet(ck.reasonStats[i].itemIds)]]

(* ------------------------------------------------------------------ *)
(* Reference maps                                                     *)
(* ------------------------------------------------------------------ *)

\* repoBodyMap after the DocumentRepositories cursor is drained (lines 150-163)
LoadRepoBodyMap ==
    [id \in {DocumentRepositories[i]._id : i \in 1..Len(DocumentRepositories)} |->
        LET i == CHOOSE j \in 1..Len(DocumentRepositories) :
                     /\ DocumentRepositories[j]._id = id
                     /\ \A l \in (j + 1)..Len(DocumentRepositories) :
                            DocumentRepositories[l]._id # id
        IN  DocumentRepositories[i].bodyOfKnowledgeId]

\* documentRepoMap after the Documents cursor is drained (lines 167-180)
LoadDocumentRepoMap ==
    [id \in {Documents[i]._id : i \in 1..Len(Documents)} |->
        LET i == CHOOSE j \in 1..Len(Documents) :
                     /\ Documents[j]._id = id
                     /\ \A l \in (j + 1)..Len(Documents) : Documents[l]._id # id
        IN  Documents[i].documentRepoId]

\* repoBodyMap after n iterations of the loop of lines 158-163
RepoBodyMapAfter(n) ==
    [id \in {DocumentRepositories[i]._id : i \in 1..n} |->
        LET i == CHOOSE j \in 1..n :
                     /\ DocumentRepositories[j]._id = id
                     /\ \A l \in (j + 1)..n : DocumentRepositories[l]._id # id
        IN  DocumentRepositories[i].bodyOfKnowledgeId]

\* documentRepoMap after n iterations of the loop of lines 175-180
DocumentRepoMapAfter(n) ==
    [id \in {Documents[i]._id : i \in 1..n} |->
        LET i == CHOOSE j \in 1..n :
                     /\ Documents[j]._id = id
                     /\ \A l \in (j + 1)..n : Documents[l]._id # id
        IN  Documents[i].documentRepoId]

(* ------------------------------------------------------------------ *)
(* processBatch                                                       *)
(* ------------------------------------------------------------------ *)

RECURSIVE ItemYearBodies(_, _)
\* the Set of non-empty bodies of itemId in the first n lookup rows
ItemYearBodies(itemId, n) ==
    IF n = 0 THEN <<>>
    ELSE LET r == ItemYearDimensionValues[n]
             before == ItemYearBodies(itemId, n - 1)
         IN  IF r.itemId = itemId /\ r.bodyOfKnowledgeId # ""
             THEN SetAdd(before, r.bodyOfKnowledgeId)
             ELSE before

\* mutant: the lookup is not filtered by the itemIds of the batch
ItemYearMapUnscoped(itemIdList) ==
    [id \in {ItemYearDimensionValues[i].itemId : i \in
                {j \in 1..Len(ItemYearDimensionValues) :
                    ItemYearDimensionValues[j].bodyOfKnowledgeId # ""}} |->
        ItemYearBodies(id, Len(ItemYearDimensionValues))]

\* itemYearMap of one batch: the $in lookup and its fold (lines 200-218)
ItemYearMap(itemIdList) ==
    [id \in {ItemYearDimensionValues[i].itemId : i \in
                {j \in 1..Len(ItemYearDimensionValues) :
                    /\ ItemYearDimensionValues[j].itemId \in Range(itemIdList)
                    /\ ItemYearDimensionValues[j].bodyOfKnowledgeId # ""}} |->
        ItemYearBodies(id, Len(ItemYearDimensionValues))]

\* new Map(): no itemId resolved (line 200)
NoItemYearMap == [x \in {} |-> <<>>]

\* mutant: a row is compared even when its repository has no body
ClassifyWithoutRepoCheck(row, docRepo, repoBody, itemYearMap) ==
    LET repoId     == MapGetOrEmpty(docRepo, row.documentId)
        repoBodyId == MapGetOrEmpty(repoBody, repoId)
    IN  IF row.itemId \notin DOMAIN itemYearMap THEN "excluded"
        ELSE IF Len(itemYearMap[row.itemId]) = 0 THEN "excluded"
        ELSE IF repoBodyId \notin Range(itemYearMap[row.itemId]) THEN "violation"
        ELSE "consistent"

\* mutant: the membership test is inverted
ClassifyInverted(row, docRepo, repoBody, itemYearMap) ==
    LET repoId     == MapGetOrEmpty(docRepo, row.documentId)
        repoBodyId == MapGetOrEmpty(repoBody, repoId)
    IN  IF repoId = "" \/ repoBodyId = "" THEN "excluded"
        ELSE IF row.itemId \notin DOMAIN itemYearMap THEN "excluded"
        ELSE IF Len(itemYearMap[row.itemId]) = 0 THEN "excluded"
        ELSE IF repoBodyId \in Range(itemYearMap[row.itemId]) THEN "violation"
        ELSE "consistent"

\* the outcome of one row in rows.forEach (lines 221-231)
Classify(row, docRepo, repoBody, itemYearMap) ==
    LET repoId     == MapGetOrEmpty(docRepo, row.documentId)
        repoBodyId == MapGetOrEmpty(repoBody, repoId)
    IN  IF repoId = "" \/ repoBodyId = "" THEN "excluded"
        ELSE IF row.itemId \notin DOMAIN itemYearMap THEN "excluded"
        ELSE IF Len(itemYearMap[row.itemId]) = 0 THEN "excluded"
        ELSE IF repoBodyId \notin Range(itemYearMap[row.itemId]) THEN "violation"
        ELSE "consistent"

\* the SampleRow pushed for a violating row (lines 241-249)
SampleOf(row, docRepo, repoBody, itemYearMap) ==
    LET repoId == MapGetOrEmpty(docRepo, row.documentId)
    IN  [documentItemId        |-> row.documentItemId,
         itemId                |-> row.itemId,
         documentId            |-> row.documentId,
         documentRepoId        |-> repoId,
         repoBodyOfKnowledgeId |-> MapGetOrEmpty(repoBody, repoId),
         itemYearBodies        |-> ArrayFrom(itemYearMap[row.itemId]),
         mismatchReason        |-> MismatchReason]

\* mutant: the cap test lets one more record in
SampleHasRoomInclusive(smp) == Len(smp) <= SAMPLE_LIMIT

\* samples.length < SAMPLE_LIMIT (line 240)
SampleHasRoom(smp) == Len(smp) < SAMPLE_LIMIT

\* mutant: the itemId is recorded only when the reason is first seen
BumpReasonCountOnly(stats, reason, itemId) ==
    IF \E i \in 1..Len(stats) : stats[i].reason = reason
    THEN [i \in 1..Len(stats) |->
            IF stats[i].reason = reason
            THEN [reason  |-> reason,
                  count   |-> stats[i].count + 1,
                  itemIds |-> stats[i].itemIds]
            ELSE stats[i]]
    ELSE Append(stats, [reason |-> reason, count |-> 1, itemIds |-> <<itemId>>])

\* reasonStats after stat.count += 1; stat.itemIds.add; reasonStats.set (lines 235-238)
BumpReason(stats, reason, itemId) ==
    IF \E i \in 1..Len(stats) : stats[i].reason = reason
    THEN [i \in 1..Len(stats) |->
            IF stats[i].reason = reason
            THEN [reason  |-> reason,
                  count   |-> stats[i].count + 1,
                  itemIds |-> SetAdd(stats[i].itemIds, itemId)]
            ELSE stats[i]]
    ELSE Append(stats, [reason |-> reason, count |-> 1, itemIds |-> <<itemId>>])

\* mutant: a violation is counted once per item
ApplyRowOncePerItem(agg, row, docRepo, repoBody, itemYearMap) ==
    IF /\ Classify(row, docRepo, repoBody, itemYearMap) = "violation"
       /\ row.itemId \notin Range(agg.allItemIds)
    THEN [documentItemCount |-> agg.documentItemCount + 1,
          allItemIds        |-> SetAdd(agg.allItemIds, row.itemId),
          reasonStats       |-> BumpReason(agg.reasonStats, MismatchReason, row.itemId),
          samples           |-> IF SampleHasRoom(agg.samples)
                                THEN Append(agg.samples,
                                            SampleOf(row, docRepo, repoBody, itemYearMap))
                                ELSE agg.samples]
    ELSE agg

\* mutant: a full samples buffer drops its oldest record for the new one
ApplyRowEvictOldest(agg, row, docRepo, repoBody, itemYearMap) ==
    IF Classify(row, docRepo, repoBody, itemYearMap) = "violation"
    THEN [documentItemCount |-> agg.documentItemCount + 1,
          allItemIds        |-> SetAdd(agg.allItemIds, row.itemId),
          reasonStats       |-> BumpReason(agg.reasonStats, MismatchReason, row.itemId),
          samples           |-> Append(IF SampleHasRoom(agg.samples)
                                       THEN agg.samples ELSE Tail(agg.samples),
                                       SampleOf(row, docRepo, repoBody, itemYearMap))]
    ELSE agg

\* the aggregates after one row of rows.forEach (lines 220-254)
ApplyRow(agg, row, docRepo, repoBody, itemYearMap) ==
    IF Classify(row, docRepo, repoBody, itemYearMap) = "violation"
    THEN [documentItemCount |-> agg.documentItemCount + 1,
          allItemIds        |-> SetAdd(agg.allItemIds, row.itemId),
          reasonStats       |-> BumpReason(agg.reasonStats, MismatchReason, row.itemId),
          samples           |-> IF SampleHasRoom(agg.samples)
                                THEN Append(agg.samples,
                                            SampleOf(row, docRepo, repoBody, itemYearMap))
                                ELSE agg.samples]
    ELSE agg

RECURSIVE ApplyRows(_, _, _, _, _)
ApplyRows(agg, rows, docRepo, repoBody, itemYearMap) ==
    IF rows = <<>> THEN agg
    ELSE ApplyRows(ApplyRow(agg, Head(rows), docRepo, repoBody, itemYearMap),
                   Tail(rows), docRepo, repoBody, itemYearMap)

\* mutant: processBatch has no early return
BatchNeverEmpty(rows) == FALSE

\* rows.length === 0 (line 193)
BatchIsEmpty(rows) == Len(rows) = 0

\* the aggregates after processBatch(rows, itemIds) (lines 192-255)
ProcessBatch(agg, rows, itemIds, docRepo, repoBody) ==
    IF BatchIsEmpty(rows) THEN agg
    ELSE ApplyRows(agg, rows, docRepo, repoBody, ItemYearMap(ArrayFrom(itemIds)))

(* ------------------------------------------------------------------ *)
(* Reports                                                            *)
(* ------------------------------------------------------------------ *)

\* one element of lines[]
Line(kind, vals) == [kind |-> kind, vals |-> vals]

\* lines.push of the title, the query time and the two totals, then the
\* heading of the reason table (lines 105-115 and 341-351)
ReportHead(t, count, itemIds) ==
    << Line("title", <<>>), Line("blank", <<>>),
       Line("queryTime", <<t>>),
       Line("documentItemCount", <<count>>),
       Line("itemCount", <<Len(itemIds)>>),
       Line("blank", <<>>),
       Line("reasonHeading", <<>>), Line("blank", <<>>),
       Line("reasonColumns", <<>>), Line("reasonRule", <<>>) >>

\* reasonStats.forEach (lines 116-118 and 352-354)
ReasonRows(stats) ==
    [i \in 1..Len(stats) |->
        Line("reasonRow", <<stats[i].reason, stats[i].count, Len(stats[i].itemIds)>>)]

\* the heading of the sample table and samples.forEach (lines 120-143 and 360-383)
SampleRows(smp) ==
    << Line("blank", <<>>), Line("sampleHeading", <<>>), Line("blank", <<>>),
       Line("sampleColumns", <<>>), Line("sampleRule", <<>>) >>
    \o [i \in 1..Len(smp) |->
          Line("sampleRow", <<smp[i].documentItemId, smp[i].itemId, smp[i].documentId,
                              smp[i].documentRepoId, smp[i].repoBodyOfKnowledgeId,
                              smp[i].itemYearBodies, smp[i].mismatchReason>>)]

\* the report of a --finalize-only run (lines 104-143)
FinalizeReport(t, count, itemIds, stats, smp) ==
    ReportHead(t, count, itemIds) \o ReasonRows(stats) \o SampleRows(smp)

\* the report of a scan run (lines 340-383)
ScanReport(t, count, itemIds, stats, smp) ==
    ReportHead(t, count, itemIds) \o ReasonRows(stats)
    \o (IF Len(stats) = 0 THEN << Line("reasonNone", <<0, 0>>) >> ELSE <<>>)
    \o SampleRows(smp)

\* mutant: the report is appended to the file
AppendFile(old, content) == old \o content

\* fs.writeFileSync(outputPath, ...): the file holds the new content only
WriteFile(old, content) == content

(* ------------------------------------------------------------------ *)
(* The DocumentItems cursor                                           *)
(* ------------------------------------------------------------------ *)

\* mutant: the resume filter is $gte
DocumentItemQueryFromLast(k, lastDocumentItemId, startDate, endDate) ==
    /\ (lastDocumentItemId # 0 => k >= lastDocumentItemId)
    /\ (startDate # 0 => AddedOn(k) >= startDate)
    /\ (endDate # 0 => AddedOn(k) < endDate)

\* mutant: a date flag replaces the query, the resume filter with it
DocumentItemQueryDatesOnly(k, lastDocumentItemId, startDate, endDate) ==
    /\ (startDate = 0 /\ endDate = 0 /\ lastDocumentItemId # 0
            => k > lastDocumentItemId)
    /\ (startDate # 0 => AddedOn(k) >= startDate)
    /\ (endDate # 0 => AddedOn(k) < endDate)

\* documentItemQuery applied to the row with key k (lines 257-269)
DocumentItemQuery(k, lastDocumentItemId, startDate, endDate) ==
    /\ (lastDocumentItemId # 0 => k > lastDocumentItemId)
    /\ (startDate # 0 => AddedOn(k) >= startDate)
    /\ (endDate # 0 => AddedOn(k) < endDate)

RECURSIVE KeysFrom(_, _, _, _)
\* the matching keys from k on, ascending: find(...).sort({_id: 1}) (lines 271-275)
KeysFrom(k, lastDocumentItemId, startDate, endDate) ==
    IF k \notin DOMAIN DocumentItems THEN <<>>
    ELSE (IF DocumentItemQuery(k, lastDocumentItemId, startDate, endDate)
          THEN <<k>> ELSE <<>>)
         \o KeysFrom(k + 1, lastDocumentItemId, startDate, endDate)

\* String(x) of a field that is present, the given default otherwise: "" stands
\* for an absent field (lines 284-285)
StringOr(field, default) == IF field = "" THEN default ELSE field

\* the DocumentItemRow built from the row with key k (lines 283-287)
RowOf(items, k) ==
    [documentItemId |-> k,
     itemId         |-> StringOr(items[k].itemId, "unknown"),
     documentId     |-> StringOr(items[k].documentId, "")]

\* mutant: the threshold test is >
ThresholdExceeded(size) == size > BATCH_SIZE

\* batchItemIds.size >= BATCH_SIZE (line 291)
ThresholdReached(size) == size >= BATCH_SIZE

\* batchesSinceSave >= CHECKPOINT_SAVE_INTERVAL (line 297)
SaveDue(n) == n >= CHECKPOINT_SAVE_INTERVAL

\* maxBatches !== null && batchIndex >= maxBatches (line 316)
StopRequested(maxBatches, index) == maxBatches # -1 /\ index >= maxBatches

(* ------------------------------------------------------------------ *)
(* Initial state                                                      *)
(* ------------------------------------------------------------------ *)

NoArgs == [maxBatches |-> -1, finalizeOnly |-> FALSE, startDate |-> 0, endDate |-> 0]
NoSave == [kind |-> "none", data |-> EmptyCheckpoint]
NoFunction == [x \in {} |-> ""]
NoFiles == [checkpoint |-> AbsentFile, output |-> <<>>]
NoRun == [outcome |-> "none", resumed |-> FALSE, maxBatches |-> -1,
          startDate |-> 0, endDate |-> 0]

\* the memory of a process that has just started
FreshMemory ==
    /\ checkpoint = [present |-> FALSE, data |-> EmptyCheckpoint]
    /\ reasonStats = <<>>
    /\ allItemIds = <<>>
    /\ samples = <<>>
    /\ documentItemCount = 0
    /\ repoBodyMap = NoFunction
    /\ documentRepoMap = NoFunction
    /\ batchIndex = 0
    /\ batchesSinceSave = 0
    /\ lastProcessedId = 0
    /\ batchRows = <<>>
    /\ batchItemIds = <<>>
    /\ cursor = <<>>
    /\ saving = NoSave

Init ==
    /\ DocumentItems \in [1..NumRows -> RowKinds]
    /\ checkpointFile = AbsentFile
    /\ outputFile = <<>>
    /\ now = 1
    /\ pc = "done"
    /\ args = NoArgs
    /\ FreshMemory
    /\ trace = <<>>
    /\ absorbed = <<>>
    /\ classified = <<>>
    /\ batches = <<>>
    /\ outcome = "none"
    /\ runs = 0
    /\ prevRun = NoRun
    /\ startFiles = NoFiles
    /\ lastSave = [before |-> AbsentFile, data |-> EmptyCheckpoint]

(* ------------------------------------------------------------------ *)
(* Process start and end                                              *)
(* ------------------------------------------------------------------ *)

\* the memory of the process is gone
ResetMemory ==
    /\ checkpoint' = [present |-> FALSE, data |-> EmptyCheckpoint]
    /\ reasonStats' = <<>>
    /\ allItemIds' = <<>>
    /\ samples' = <<>>
    /\ documentItemCount' = 0
    /\ repoBodyMap' = NoFunction
    /\ documentRepoMap' = NoFunction
    /\ batchIndex' = 0
    /\ batchesSinceSave' = 0
    /\ lastProcessedId' = 0
    /\ batchRows' = <<>>
    /\ batchItemIds' = <<>>
    /\ cursor' = <<>>
    /\ saving' = NoSave

\* the values of --start-date and --end-date: absent, or a date
StartDates == {0, 2}
EndDates == {0, 3}

\* the values of --max-batches: absent, or a number
MaxBatchesArgs == {-1, 0, 1, 2}

\* process.argv as parsed at lines 17-27.  The launches of one behaviour
\* share their date flags; a --finalize-only launch is given no --max-batches.
ArgChoices ==
    { a \in [maxBatches : MaxBatchesArgs, finalizeOnly : BOOLEAN,
             startDate : StartDates, endDate : EndDates] :
        /\ a.finalizeOnly => a.maxBatches = -1
        /\ runs > 0 => a.startDate = args.startDate /\ a.endDate = args.endDate }

\* the summary kept of a run that ended with outcome o: whether a scan that
\* reached its report had resumed from a checkpoint, the --max-batches that
\* stopped it, and its date flags
RunSummary(o) ==
    [outcome |-> o,
     resumed |-> IF o \in {"stopped", "exhausted"} THEN checkpoint.present ELSE FALSE,
     maxBatches |-> IF o = "stopped" THEN args.maxBatches ELSE -1,
     startDate |-> args.startDate,
     endDate |-> args.endDate]

\* the flags are gone with the process; the date flags are those of the next launch
ResetArgs ==
    args' = [maxBatches |-> -1, finalizeOnly |-> FALSE,
             startDate |-> args.startDate, endDate |-> args.endDate]

\* the callback returns or throws with outcome o; withDB's finally is still to run
EndRun(o) ==
    /\ pc' = "exit"
    /\ outcome' = o

\* the script is launched with one of the given command lines: module top
\* level, lines 17-27 and 73-75
Launch(choices) ==
    /\ pc = "done"
    /\ runs' = runs + 1
    /\ args' \in choices
    /\ pc' = "load"
    /\ outcome' = "running"
    /\ startFiles' = [checkpoint |-> checkpointFile, output |-> outputFile]
    /\ UNCHANGED <<DocumentItems, now, memory, files, trace, absorbed, classified,
                   batches, prevRun, lastSave>>

\* a launch with any flags
StartRun ==
    /\ runs < MaxRuns
    /\ Launch(ArgChoices)

\* a launch after which only --finalize-only launches follow
StartRunThenFinalize ==
    /\ runs < MaxRuns + 1
    /\ Launch({a \in ArgChoices : runs > 0 => a.finalizeOnly})

\* the history of a process that is gone
ResetHistory ==
    /\ trace' = <<>>
    /\ absorbed' = <<>>
    /\ classified' = <<>>
    /\ batches' = <<>>
    /\ startFiles' = NoFiles

\* withDB closes the client and the process exits
Exit ==
    /\ pc = "exit"
    /\ pc' = "done"
    /\ prevRun' = RunSummary(outcome)
    /\ ResetMemory
    /\ ResetHistory
    /\ ResetArgs
    /\ UNCHANGED <<DocumentItems, now, files, outcome, runs, lastSave>>

\* the process is killed: nothing of its memory survives, the files stay as they are
Kill ==
    /\ pc \notin {"done", "exit"}
    /\ pc' = "done"
    /\ outcome' = "killed"
    /\ prevRun' = RunSummary("killed")
    /\ ResetMemory
    /\ ResetHistory
    /\ ResetArgs
    /\ UNCHANGED <<DocumentItems, now, files, runs, lastSave>>

(* ------------------------------------------------------------------ *)
(* Checkpoint restore and the finalize-only branch                    *)
(* ------------------------------------------------------------------ *)

\* mutant: no guard
NoFinalizeGuard(finalizeOnly, present) == FALSE

\* finalizeOnly && !checkpoint (lines 80-81)
FinalizeWithoutCheckpoint(finalizeOnly, present) == finalizeOnly /\ ~present

\* mutant: --finalize-only is not honoured
AfterRestoreAlwaysScan(finalizeOnly) == "repos"

\* where the callback goes after the restore (line 103)
AfterRestore(finalizeOnly) == IF finalizeOnly THEN "finalize" ELSE "repos"

\* lines 77-101: loadCheckpoint, the finalize-only guard, the restore
LoadCheckpoint ==
    /\ pc = "load"
    /\ LET r == loadCheckpoint(checkpointFile)
           present == r.result = "ok"
       IN  \/ /\ r.result = "throw"
              \* JSON.parse throws; withDB catches and logs it
              /\ trace' = trace \o <<"loadCheckpoint", "error">>
              /\ EndRun("error")
              /\ UNCHANGED memory
           \/ /\ r.result # "throw"
              /\ FinalizeWithoutCheckpoint(args.finalizeOnly, present)
              /\ trace' = trace \o <<"loadCheckpoint", "console:noCheckpoint">>
              /\ EndRun("noCheckpoint")
              /\ UNCHANGED memory
           \/ /\ r.result # "throw"
              /\ ~FinalizeWithoutCheckpoint(args.finalizeOnly, present)
              /\ checkpoint' = [present |-> present, data |-> r.data]
              /\ reasonStats' = RestoreReasonStats(r.data)
              /\ allItemIds' = NewSet(r.data.allItemIds)
              /\ samples' = r.data.samples
              /\ documentItemCount' = r.data.documentItemCount
              /\ trace' = Append(trace, "loadCheckpoint")
              /\ pc' = AfterRestore(args.finalizeOnly)
              /\ UNCHANGED <<refMaps, scanState, saving, outcome>>
    /\ UNCHANGED <<DocumentItems, now, args, files, absorbed, classified, batches,
                   runs, prevRun, startFiles, lastSave>>

\* lines 103-148: the report of the restored aggregates, stamped with the time
\* new Date() reads, and return
FinalizeOnly ==
    /\ pc = "finalize"
    /\ now' \in {t \in Times : t >= now}
    /\ outputFile' = WriteFile(outputFile,
                        FinalizeReport(now', documentItemCount, allItemIds,
                                       reasonStats, samples))
    /\ trace' = Append(trace, "writeReport")
    /\ EndRun("finalized")
    /\ UNCHANGED <<DocumentItems, args, memory, checkpointFile, absorbed,
                   classified, batches, runs, prevRun, startFiles, lastSave>>

(* ------------------------------------------------------------------ *)
(* Reference maps and the cursor                                      *)
(* ------------------------------------------------------------------ *)

\* lines 150-165
LoadRepositories ==
    /\ pc = "repos"
    /\ repoBodyMap' = LoadRepoBodyMap
    /\ trace' = Append(trace, "query:DocumentRepositories")
    /\ pc' = "docs"
    /\ UNCHANGED <<DocumentItems, now, args, checkpoint, aggregates, documentRepoMap,
                   scanState, saving, files, absorbed, classified, batches, outcome,
                   runs, prevRun, startFiles, lastSave>>

\* lines 167-182
LoadDocuments ==
    /\ pc = "docs"
    /\ documentRepoMap' = LoadDocumentRepoMap
    /\ trace' = Append(trace, "query:Documents")
    /\ pc' = "query"
    /\ UNCHANGED <<DocumentItems, now, args, checkpoint, aggregates, repoBodyMap,
                   scanState, saving, files, absorbed, classified, batches, outcome,
                   runs, prevRun, startFiles, lastSave>>

\* the DocumentRepositories cursor rejects after n rows (line 158): the
\* callback throws out of the loop, withDB catches and logs the error
RepositoriesError ==
    /\ pc = "repos"
    /\ \E n \in 0..Len(DocumentRepositories) : repoBodyMap' = RepoBodyMapAfter(n)
    /\ trace' = trace \o <<"query:DocumentRepositories", "error">>
    /\ EndRun("error")
    /\ UNCHANGED <<DocumentItems, now, args, checkpoint, aggregates, documentRepoMap,
                   scanState, saving, files, absorbed, classified, batches,
                   runs, prevRun, startFiles, lastSave>>

\* mutant: the error of the Documents cursor is swallowed and the scan goes
\* on with the rows loaded so far
DocumentsErrorSkipped ==
    /\ pc = "docs"
    /\ \E n \in 0..Len(Documents) : documentRepoMap' = DocumentRepoMapAfter(n)
    /\ trace' = trace \o <<"query:Documents", "error">>
    /\ pc' = "query"
    /\ UNCHANGED <<DocumentItems, now, args, checkpoint, aggregates, repoBodyMap,
                   scanState, saving, files, absorbed, classified, batches, outcome,
                   runs, prevRun, startFiles, lastSave>>

\* the Documents cursor rejects after n rows (line 175)
DocumentsError ==
    /\ pc = "docs"
    /\ \E n \in 0..Len(Documents) : documentRepoMap' = DocumentRepoMapAfter(n)
    /\ trace' = trace \o <<"query:Documents", "error">>
    /\ EndRun("error")
    /\ UNCHANGED <<DocumentItems, now, args, checkpoint, aggregates, repoBodyMap,
                   scanState, saving, files, absorbed, classified, batches,
                   runs, prevRun, startFiles, lastSave>>

\* mutant: the scan position starts undefined
InitialLastProcessedIdUndefined(lastDocumentItemId) == 0

\* let lastProcessedId = lastDocumentItemId (line 187)
InitialLastProcessedId(lastDocumentItemId) == lastDocumentItemId

\* mutant: the cursor of a resumed run starts at the first row
OpenCursorFromStart ==
    /\ pc = "query"
    /\ batchIndex' = 0
    /\ batchesSinceSave' = 0
    /\ lastProcessedId' = InitialLastProcessedId(checkpoint.data.lastDocumentItemId)
    /\ batchRows' = <<>>
    /\ batchItemIds' = <<>>
    /\ cursor' = KeysFrom(1, 0, args.startDate, args.endDate)
    /\ trace' = Append(trace, "query:DocumentItems")
    /\ pc' = "scan"
    /\ UNCHANGED <<DocumentItems, now, args, checkpoint, aggregates, refMaps, saving,
                   files, absorbed, classified, batches, outcome, runs, prevRun, startFiles,
                   lastSave>>

\* lines 184-190 and 257-275: the scan state and the DocumentItems cursor
OpenCursor ==
    /\ pc = "query"
    /\ batchIndex' = 0
    /\ batchesSinceSave' = 0
    /\ lastProcessedId' = InitialLastProcessedId(checkpoint.data.lastDocumentItemId)
    /\ batchRows' = <<>>
    /\ batchItemIds' = <<>>
    /\ cursor' = KeysFrom(1, checkpoint.data.lastDocumentItemId,
                          args.startDate, args.endDate)
    /\ trace' = Append(trace, "query:DocumentItems")
    /\ pc' = "scan"
    /\ UNCHANGED <<DocumentItems, now, args, checkpoint, aggregates, refMaps, saving,
                   files, absorbed, classified, batches, outcome, runs, prevRun, startFiles,
                   lastSave>>

(* ------------------------------------------------------------------ *)
(* The scan loop                                                      *)
(* ------------------------------------------------------------------ *)

\* the aggregates as one record, and back
Agg == [documentItemCount |-> documentItemCount, allItemIds |-> allItemIds,
        reasonStats |-> reasonStats, samples |-> samples]

SetAggregates(agg) ==
    /\ documentItemCount' = agg.documentItemCount
    /\ allItemIds' = agg.allItemIds
    /\ reasonStats' = agg.reasonStats
    /\ samples' = agg.samples

\* the history of one processBatch(rows, itemIds) call
CallProcessBatch(kind, rows, itemIds) ==
    /\ batches' = Append(batches,
                    [kind |-> kind,
                     rows |-> [i \in 1..Len(rows) |-> rows[i].documentItemId],
                     itemIds |-> itemIds,
                     itemYearMap |-> IF BatchIsEmpty(rows) THEN NoItemYearMap
                                     ELSE ItemYearMap(ArrayFrom(itemIds))])
    /\ classified' = classified
                     \o (IF BatchIsEmpty(rows) THEN <<>>
                         ELSE [i \in 1..Len(rows) |-> rows[i].documentItemId])
    /\ trace' = trace
                \o (IF BatchIsEmpty(rows) THEN <<"processBatch">>
                    ELSE <<"processBatch", "query:ItemYearDimensionValues">>)

\* one iteration of the for await loop up to the threshold test (lines 277-291)
AbsorbRow ==
    /\ pc = "scan"
    /\ cursor # <<>>
    /\ LET k == Head(cursor)
           row == RowOf(DocumentItems, k)
       IN  /\ batchRows' = Append(batchRows, row)
           /\ batchItemIds' = SetAdd(batchItemIds, row.itemId)
           /\ lastProcessedId' = k
           /\ absorbed' = Append(absorbed, k)
           /\ pc' = IF ThresholdReached(Len(SetAdd(batchItemIds, row.itemId)))
                    THEN "flush" ELSE "scan"
    /\ cursor' = Tail(cursor)
    /\ trace' = Append(trace, "absorb")
    /\ UNCHANGED <<DocumentItems, now, args, checkpoint, aggregates, refMaps,
                   batchIndex, batchesSinceSave, saving, files, classified, batches,
                   outcome, runs, prevRun, startFiles, lastSave>>

\* the cursor is exhausted: the loop ends (line 321)
CursorExhausted ==
    /\ pc = "scan"
    /\ cursor = <<>>
    /\ pc' = "drain"
    /\ UNCHANGED <<DocumentItems, now, args, memory, files, history>>

\* mutant: an error of the cursor is taken for the end of the input
CursorErrorEndsLoop ==
    /\ pc = "scan"
    /\ trace' = Append(trace, "error")
    /\ pc' = "drain"
    /\ UNCHANGED <<DocumentItems, now, args, memory, files, absorbed, classified,
                   batches, outcome, runs, prevRun, startFiles, lastSave>>

\* the DocumentItems cursor rejects (line 277): the callback throws, withDB
\* catches and logs the error
CursorError ==
    /\ pc = "scan"
    /\ trace' = Append(trace, "error")
    /\ EndRun("error")
    /\ UNCHANGED <<DocumentItems, now, args, memory, files, absorbed, classified,
                   batches, runs, prevRun, startFiles, lastSave>>

\* the ItemYearDimensionValues cursor rejects inside processBatch (lines
\* 196-206), called from the threshold flush or from the drain: batchIndex is
\* already incremented, no row of the batch is classified
LookupError ==
    /\ pc \in {"flush", "drain"}
    /\ ~BatchIsEmpty(batchRows)
    /\ batchIndex' = batchIndex + 1
    /\ batches' = Append(batches,
                    [kind |-> "failed",
                     rows |-> [i \in 1..Len(batchRows) |-> batchRows[i].documentItemId],
                     itemIds |-> batchItemIds,
                     itemYearMap |-> NoItemYearMap])
    /\ trace' = trace \o <<"processBatch", "query:ItemYearDimensionValues", "error">>
    /\ EndRun("error")
    /\ UNCHANGED <<DocumentItems, now, args, checkpoint, aggregates, refMaps,
                   batchesSinceSave, lastProcessedId, batchRows, batchItemIds, cursor,
                   saving, files, absorbed, classified, runs, prevRun, startFiles,
                   lastSave>>

\* mutant: the buffer is not emptied after the flush
FlushBatchKeepsBuffer ==
    /\ pc = "flush"
    /\ SetAggregates(ProcessBatch(Agg, batchRows, batchItemIds,
                                  documentRepoMap, repoBodyMap))
    /\ batchIndex' = IF BatchIsEmpty(batchRows) THEN batchIndex ELSE batchIndex + 1
    /\ CallProcessBatch("threshold", batchRows, batchItemIds)
    /\ batchesSinceSave' = batchesSinceSave + 1
    /\ IF SaveDue(batchesSinceSave + 1)
       THEN pc' = "save" /\ saving' = [kind |-> "interval", data |-> EmptyCheckpoint]
       ELSE pc' = "stopCheck" /\ saving' = saving
    /\ UNCHANGED <<DocumentItems, now, args, checkpoint, refMaps, lastProcessedId,
                   batchRows, batchItemIds, cursor, files, absorbed, outcome, runs,
                   prevRun, startFiles, lastSave>>

\* the threshold flush (lines 292-297)
FlushBatch ==
    /\ pc = "flush"
    /\ SetAggregates(ProcessBatch(Agg, batchRows, batchItemIds,
                                  documentRepoMap, repoBodyMap))
    /\ batchIndex' = IF BatchIsEmpty(batchRows) THEN batchIndex ELSE batchIndex + 1
    /\ CallProcessBatch("threshold", batchRows, batchItemIds)
    /\ batchRows' = <<>>
    /\ batchItemIds' = <<>>
    /\ batchesSinceSave' = batchesSinceSave + 1
    /\ IF SaveDue(batchesSinceSave + 1)
       THEN pc' = "save" /\ saving' = [kind |-> "interval", data |-> EmptyCheckpoint]
       ELSE pc' = "stopCheck" /\ saving' = saving
    /\ UNCHANGED <<DocumentItems, now, args, checkpoint, refMaps, lastProcessedId,
                   cursor, files, absorbed, outcome, runs, prevRun, startFiles, lastSave>>

\* saveCheckpoint, first half: the Checkpoint literal is built and
\* fs.writeFileSync opens the file, which truncates it (lines 298-311, 325-338, 69-71)
SaveOpen ==
    /\ pc = "save"
    /\ LET data == CheckpointData(lastProcessedId, documentItemCount, allItemIds,
                                  reasonStats, samples)
       IN  /\ saving' = [kind |-> saving.kind, data |-> data]
           /\ lastSave' = [before |-> checkpointFile, data |-> data]
    /\ checkpointFile' = [state |-> "empty", data |-> EmptyCheckpoint]
    /\ pc' = "write"
    /\ UNCHANGED <<DocumentItems, now, args, checkpoint, aggregates, refMaps,
                   scanState, outputFile, trace, absorbed, classified, batches,
                   outcome, runs, prevRun, startFiles>>

\* saveCheckpoint, second half: the serialized document is written, in one
\* write or in several (lines 69-71); then lines 312-313
SaveWrite ==
    /\ pc = "write"
    /\ \/ /\ checkpointFile.state = "empty"
          /\ checkpointFile' = [state |-> "partial", data |-> saving.data]
          /\ UNCHANGED <<pc, batchesSinceSave, saving, trace, lastSave>>
       \/ /\ checkpointFile' = [state |-> "full", data |-> saving.data]
          /\ lastSave' = [before |-> [state |-> "full", data |-> saving.data],
                          data |-> saving.data]
          /\ trace' = Append(trace, "saveCheckpoint")
          /\ saving' = NoSave
          /\ IF saving.kind = "interval"
             THEN pc' = "stopCheck" /\ batchesSinceSave' = 0
             ELSE pc' = "report" /\ batchesSinceSave' = batchesSinceSave
    /\ UNCHANGED <<DocumentItems, now, args, checkpoint, aggregates, refMaps,
                   batchIndex, lastProcessedId, batchRows, batchItemIds, cursor,
                   outputFile, absorbed, classified, batches, outcome, runs,
                   prevRun, startFiles>>

\* the --max-batches test that ends the flush (lines 316-320)
StopCheck ==
    /\ pc = "stopCheck"
    /\ IF StopRequested(args.maxBatches, batchIndex)
       THEN pc' = "drain" /\ trace' = Append(trace, "stop")
       ELSE pc' = "scan" /\ trace' = trace
    /\ UNCHANGED <<DocumentItems, now, args, memory, files, absorbed, classified,
                   batches, outcome, runs, prevRun, startFiles, lastSave>>

\* mutant: no drain call before the final checkpoint
DrainBatchSkipped ==
    /\ pc = "drain"
    /\ saving' = [kind |-> "final", data |-> EmptyCheckpoint]
    /\ pc' = "save"
    /\ UNCHANGED <<DocumentItems, now, args, checkpoint, aggregates, refMaps, scanState,
                   files, history>>

\* mutant: the drain call is followed by the report, with no final checkpoint
DrainThenReport ==
    /\ pc = "drain"
    /\ SetAggregates(ProcessBatch(Agg, batchRows, batchItemIds,
                                  documentRepoMap, repoBodyMap))
    /\ batchIndex' = IF BatchIsEmpty(batchRows) THEN batchIndex ELSE batchIndex + 1
    /\ CallProcessBatch("drain", batchRows, batchItemIds)
    /\ pc' = "report"
    /\ UNCHANGED <<DocumentItems, now, args, checkpoint, refMaps, batchesSinceSave,
                   lastProcessedId, batchRows, batchItemIds, cursor, saving, files,
                   absorbed, outcome, runs, prevRun, startFiles, lastSave>>

\* mutant: the buffer left at the end of the loop is processed only when it
\* holds a full batch
DrainOnlyFullBatch ==
    /\ pc = "drain"
    /\ LET full == ThresholdReached(Len(batchItemIds))
           rows == IF full THEN batchRows ELSE <<>>
           itemIds == IF full THEN batchItemIds ELSE <<>>
       IN  /\ SetAggregates(ProcessBatch(Agg, rows, itemIds,
                                         documentRepoMap, repoBodyMap))
           /\ batchIndex' = IF BatchIsEmpty(rows) THEN batchIndex ELSE batchIndex + 1
           /\ CallProcessBatch("drain", rows, itemIds)
    /\ saving' = [kind |-> "final", data |-> EmptyCheckpoint]
    /\ pc' = "save"
    /\ UNCHANGED <<DocumentItems, now, args, checkpoint, refMaps, batchesSinceSave,
                   lastProcessedId, batchRows, batchItemIds, cursor, files, absorbed,
                   outcome, runs, prevRun, startFiles, lastSave>>

\* the drain call after the loop (line 323), then the final checkpoint is due
DrainBatch ==
    /\ pc = "drain"
    /\ SetAggregates(ProcessBatch(Agg, batchRows, batchItemIds,
                                  documentRepoMap, repoBodyMap))
    /\ batchIndex' = IF BatchIsEmpty(batchRows) THEN batchIndex ELSE batchIndex + 1
    /\ CallProcessBatch("drain", batchRows, batchItemIds)
    /\ saving' = [kind |-> "final", data |-> EmptyCheckpoint]
    /\ pc' = "save"
    /\ UNCHANGED <<DocumentItems, now, args, checkpoint, refMaps, batchesSinceSave,
                   lastProcessedId, batchRows, batchItemIds, cursor, files, absorbed,
                   outcome, runs, prevRun, startFiles, lastSave>>

\* the report of a scan run (lines 340-388)
WriteReport ==
    /\ pc = "report"
    /\ now' \in {t \in Times : t >= now}
    /\ outputFile' = WriteFile(outputFile,
                        ScanReport(now', documentItemCount, allItemIds,
                                   reasonStats, samples))
    /\ trace' = Append(trace, "writeReport")
    /\ EndRun(IF "stop" \in Range(trace) THEN "stopped" ELSE "exhausted")
    /\ UNCHANGED <<DocumentItems, args, memory, checkpointFile, absorbed,
                   classified, batches, runs, prevRun, startFiles, lastSave>>

\* a step of the running process
Step ==
    \/ Exit
    \/ Kill
    \/ LoadCheckpoint
    \/ FinalizeOnly
    \/ LoadRepositories
    \/ LoadDocuments
    \/ OpenCursor
    \/ AbsorbRow
    \/ CursorExhausted
    \/ FlushBatch
    \/ SaveOpen
    \/ SaveWrite
    \/ StopCheck
    \/ DrainBatch
    \/ WriteReport

Next == StartRun \/ Step

\* any launches, MaxRuns of them
Spec == Init /\ [][Next]_vars

NextFinalize == StartRunThenFinalize \/ Step

\* one launch with any flags, then --finalize-only launches
SpecFinalize == Init /\ [][NextFinalize]_vars

\* a collection of fewer than NumRows rows, of every kind
InitClassify ==
    /\ DocumentItems \in UNION {[1..n -> ClassifyRowKinds] : n \in 1..(NumRows - 1)}
    /\ checkpointFile = AbsentFile
    /\ outputFile = <<>>
    /\ now = 1
    /\ pc = "done"
    /\ args = NoArgs
    /\ FreshMemory
    /\ trace = <<>>
    /\ absorbed = <<>>
    /\ classified = <<>>
    /\ batches = <<>>
    /\ outcome = "none"
    /\ runs = 0
    /\ prevRun = NoRun
    /\ startFiles = NoFiles
    /\ lastSave = [before |-> AbsentFile, data |-> EmptyCheckpoint]

\* the first launch, with no flag
StartFullScan ==
    /\ runs = 0
    /\ Launch({NoArgs})

NextClassify ==
    \/ StartFullScan
    \/ Exit
    \/ LoadCheckpoint
    \/ LoadRepositories
    \/ LoadDocuments
    \/ OpenCursor
    \/ AbsorbRow
    \/ CursorExhausted
    \/ FlushBatch
    \/ SaveOpen
    \/ SaveWrite
    \/ StopCheck
    \/ DrainBatch
    \/ WriteReport

\* one full scan, from no checkpoint, of a collection with rows of every kind
SpecClassify == InitClassify /\ [][NextClassify]_vars

\* a collection of one row more than a checkpoint interval of smallest batches
InitInterval ==
    /\ DocumentItems \in [1..(CHECKPOINT_SAVE_INTERVAL * BATCH_SIZE + 1) -> RowKinds]
    /\ checkpointFile = AbsentFile
    /\ outputFile = <<>>
    /\ now = 1
    /\ pc = "done"
    /\ args = NoArgs
    /\ FreshMemory
    /\ trace = <<>>
    /\ absorbed = <<>>
    /\ classified = <<>>
    /\ batches = <<>>
    /\ outcome = "none"
    /\ runs = 0
    /\ prevRun = NoRun
    /\ startFiles = NoFiles
    /\ lastSave = [before |-> AbsentFile, data |-> EmptyCheckpoint]

\* a scan launch with no date flag
StartScan ==
    /\ runs < MaxRuns
    /\ Launch({a \in ArgChoices : ~a.finalizeOnly /\ a.startDate = 0 /\ a.endDate = 0})

\* a step of a scan run, the errors of the database included
ScanStep ==
    \/ Exit
    \/ Kill
    \/ LoadCheckpoint
    \/ LoadRepositories
    \/ LoadDocuments
    \/ RepositoriesError
    \/ DocumentsError
    \/ OpenCursor
    \/ AbsorbRow
    \/ CursorExhausted
    \/ CursorError
    \/ LookupError
    \/ FlushBatch
    \/ SaveOpen
    \/ SaveWrite
    \/ StopCheck
    \/ DrainBatch
    \/ WriteReport

NextScan == StartScan \/ ScanStep

\* scan launches over the whole collection, MaxRuns of them, with I/O errors
SpecScan == Init /\ [][NextScan]_vars

\* a scan launch with the date flags of the behaviour, stopped after its
\* first batch or not stopped
StartStoppableScan ==
    /\ runs < MaxRuns
    /\ Launch({a \in ArgChoices : ~a.finalizeOnly /\ a.maxBatches \in {-1, 1}})

\* a step of a scan run that no database error ends
ResumeStep ==
    \/ Exit
    \/ Kill
    \/ LoadCheckpoint
    \/ LoadRepositories
    \/ LoadDocuments
    \/ OpenCursor
    \/ AbsorbRow
    \/ CursorExhausted
    \/ FlushBatch
    \/ SaveOpen
    \/ SaveWrite
    \/ StopCheck
    \/ DrainBatch
    \/ WriteReport

NextResume == StartStoppableScan \/ ResumeStep

\* scan launches that share their date flags, stopped, killed and resumed
SpecResume == Init /\ [][NextResume]_vars

\* a scan launch with date flags of its own
StartDatedScan ==
    /\ runs < MaxRuns
    /\ Launch([maxBatches : MaxBatchesArgs, finalizeOnly : {FALSE},
               startDate : StartDates, endDate : EndDates])

NextDates == StartDatedScan \/ ScanStep

\* scan launches that share the checkpoint file, each with its own date flags
SpecDates == Init /\ [][NextDates]_vars

\* the same launches over a collection longer than a checkpoint interval
SpecInterval == InitInterval /\ [][NextScan]_vars

(* ------------------------------------------------------------------ *)
(* A whole scan as a function                                         *)
(* ------------------------------------------------------------------ *)

RECURSIVE ScanLoop(_, _, _, _, _)
\* the aggregates a scan without --max-batches ends with: the for await loop
\* over the keys cur, then the drain call (lines 277-323)
ScanLoop(items, agg, cur, rows, itemIds) ==
    IF cur = <<>>
    THEN ProcessBatch(agg, rows, itemIds, LoadDocumentRepoMap, LoadRepoBodyMap)
    ELSE LET row == RowOf(items, Head(cur))
             rows2 == Append(rows, row)
             ids2 == SetAdd(itemIds, row.itemId)
         IN  IF ThresholdReached(Len(ids2))
             THEN ScanLoop(items,
                           ProcessBatch(agg, rows2, ids2,
                                        LoadDocumentRepoMap, LoadRepoBodyMap),
                           Tail(cur), <<>>, <<>>)
             ELSE ScanLoop(items, agg, Tail(cur), rows2, ids2)

\* the aggregates of an uninterrupted scan that starts with no checkpoint
UninterruptedRun(items, startDate, endDate) ==
    ScanLoop(items,
             [documentItemCount |-> 0, allItemIds |-> <<>>, reasonStats |-> <<>>,
              samples |-> <<>>],
             KeysFrom(1, 0, startDate, endDate), <<>>, <<>>)

\* per reason: the occurrence count and the size of the distinct-item set
ReasonCounts(stats) ==
    {<<stats[i].reason, stats[i].count, Len(stats[i].itemIds)>> : i \in 1..Len(stats)}

(* ------------------------------------------------------------------ *)
(* Properties                                                         *)
(* ------------------------------------------------------------------ *)

\* the events of the trace that are queries
Queries == {"query:DocumentRepositories", "query:Documents", "query:DocumentItems",
            "query:ItemYearDimensionValues"}

\* loadCheckpoint has returned null in the running process
LoadedNull ==
    /\ pc \notin {"done", "load"}
    /\ "error" \notin Range(trace)
    /\ ~checkpoint.present

\* the state reached when a run that resumed from the checkpoint of a run
\* stopped by --max-batches N, N >= 1, itself started without a checkpoint,
\* has scanned to the end of the input
ResumedRunEnded ==
    /\ pc = "exit"
    /\ outcome = "exhausted"
    /\ checkpoint.present
    /\ prevRun.outcome = "stopped"
    /\ ~prevRun.resumed
    /\ prevRun.maxBatches >= 1

\* C1: resume equivalence.  A scan stopped by --max-batches after batch
\* N >= 1 and then resumed from the checkpoint it wrote ends with the same
\* documentItemCount, the same allItemIds size and the same per-reason counts
\* and distinct-item-set sizes as one uninterrupted scan of the same snapshot
\* with the same date bounds.
C1_ResumeEquivalence ==
    ResumedRunEnded =>
        LET u == UninterruptedRun(DocumentItems, args.startDate, args.endDate)
        IN  /\ documentItemCount = u.documentItemCount
            /\ Len(allItemIds) = Len(u.allItemIds)
            /\ ReasonCounts(reasonStats) = ReasonCounts(u.reasonStats)

C1_Witness ==
    /\ ResumedRunEnded
    /\ checkpoint.data.documentItemCount > 0
    /\ documentItemCount > checkpoint.data.documentItemCount
    /\ Len(allItemIds) > Len(checkpoint.data.allItemIds)

\* C2: saveCheckpoint is atomic.  When the process has stopped during a save,
\* loadCheckpoint returns the complete checkpoint the file held before the
\* save began or the complete new one, never nothing and never an error.
C2_AtomicSave ==
    (pc = "done" /\ outcome = "killed") =>
        loadCheckpoint(checkpointFile) \in
            { loadCheckpoint(lastSave.before),
              [result |-> "ok", data |-> lastSave.data] }

\* the itemId of the row with key k
ItemIdOf(k) == DocumentItems[k].itemId

\* C3: batch flush bound.  Every batch handed to processBatch has at most
\* BATCH_SIZE distinct itemIds; a threshold batch has exactly BATCH_SIZE and
\* its last row is the one whose itemId brought the count to the threshold;
\* the drain batch has fewer than BATCH_SIZE.
C3_BatchFlushBound ==
    \A i \in 1..Len(batches) :
        LET b == batches[i]
            n == Len(b.rows)
        IN  /\ Len(b.itemIds) <= BATCH_SIZE
            /\ Len(b.itemIds) = Cardinality({ItemIdOf(b.rows[j]) : j \in 1..n})
            /\ b.kind = "threshold" =>
                  /\ Len(b.itemIds) = BATCH_SIZE
                  /\ n >= 1
                  /\ \A j \in 1..(n - 1) : ItemIdOf(b.rows[j]) # ItemIdOf(b.rows[n])
            /\ b.kind = "drain" => Len(b.itemIds) < BATCH_SIZE

C3_Witness ==
    \E i, j \in 1..Len(batches) :
        /\ batches[i].kind = "threshold"
        /\ Len(batches[i].rows) > BATCH_SIZE
        /\ batches[j].kind = "drain"
        /\ Len(batches[j].rows) > 0

\* C4: sample cap.  In memory, in the checkpoint being saved and in the
\* checkpoint file, samples holds at most SAMPLE_LIMIT records.
C4_SampleCap ==
    /\ Len(samples) <= SAMPLE_LIMIT
    /\ Len(saving.data.samples) <= SAMPLE_LIMIT
    /\ Len(checkpointFile.data.samples) <= SAMPLE_LIMIT

C4_Witness ==
    /\ checkpoint.present
    /\ Len(checkpoint.data.samples) = SAMPLE_LIMIT
    /\ documentItemCount > checkpoint.data.documentItemCount
    /\ documentItemCount > SAMPLE_LIMIT
    /\ checkpointFile.state = "full"
    /\ checkpointFile.data.documentItemCount = documentItemCount

\* the state reached when a --finalize-only run has written its report and
\* the process before it was a --finalize-only run that wrote one too
SecondFinalizeEnded ==
    /\ pc = "exit"
    /\ outcome = "finalized"
    /\ prevRun.outcome = "finalized"
    /\ checkpointFile = startFiles.checkpoint

\* C5, as claimed: the second of two --finalize-only runs against the same
\* checkpoint file leaves the report file exactly as the first wrote it,
\* whatever the time of either run.
C5_ByteIdentical == SecondFinalizeEnded => outputFile = startFiles.output

IsNotQueryTime(line) == line.kind # "queryTime"
IsQueryTime(line) == line.kind = "queryTime"

\* C5, amended: the two reports have the same lines apart from the query-time
\* line, and are the same file when both runs read the same time.
C5_IdenticalButQueryTime ==
    SecondFinalizeEnded =>
        /\ SelectSeq(outputFile, IsNotQueryTime)
               = SelectSeq(startFiles.output, IsNotQueryTime)
        /\ Len(outputFile) = Len(startFiles.output)
        /\ SelectSeq(outputFile, IsQueryTime)
               = SelectSeq(startFiles.output, IsQueryTime)
           => outputFile = startFiles.output

C5_Witness ==
    /\ SecondFinalizeEnded
    /\ documentItemCount > 0
    /\ Len(samples) > 0
    /\ outputFile # startFiles.output

\* C6: a --finalize-only run for which loadCheckpoint returned null says so
\* and ends: it writes no report, leaves the checkpoint file as it is, loads no
\* reference collection and absorbs no row.
C6_FinalizeNeedsCheckpoint ==
    (args.finalizeOnly /\ LoadedNull) =>
        /\ pc = "exit"
        /\ outcome = "noCheckpoint"
        /\ "console:noCheckpoint" \in Range(trace)
        /\ outputFile = startFiles.output
        /\ checkpointFile = startFiles.checkpoint
        /\ Range(trace) \cap Queries = {}
        /\ refMaps = <<NoFunction, NoFunction>>
        /\ absorbed = <<>>

C6_Witness ==
    /\ args.finalizeOnly
    /\ LoadedNull
    /\ outcome = "noCheckpoint"
    /\ startFiles.checkpoint.state = "empty"

\* C7: a --finalize-only run issues no query, never calls processBatch and
\* leaves the checkpoint file unchanged; the one file it writes is the
\* report, and the report is that of the checkpoint it loaded.
C7_FinalizeOnlyFrame ==
    (args.finalizeOnly /\ pc # "done") =>
        /\ Range(trace) \cap Queries = {}
        /\ "processBatch" \notin Range(trace)
        /\ "saveCheckpoint" \notin Range(trace)
        /\ absorbed = <<>>
        /\ batches = <<>>
        /\ checkpointFile = startFiles.checkpoint
        /\ IF outcome = "finalized"
           THEN LET ck == startFiles.checkpoint.data
                IN  outputFile = FinalizeReport(now, ck.documentItemCount,
                                     NewSet(ck.allItemIds), RestoreReasonStats(ck),
                                     ck.samples)
           ELSE outputFile = startFiles.output

C7_Witness ==
    /\ args.finalizeOnly
    /\ pc = "exit"
    /\ outcome = "finalized"
    /\ documentItemCount > 0
    /\ outputFile # startFiles.output

\* the number of non-empty batches processBatch was given before event i
BatchesBefore(i) ==
    Cardinality({j \in 1..(i - 1) : trace[j] = "query:ItemYearDimensionValues"})

\* C8: with --max-batches N, N >= 0, the run gives at most N non-empty
\* batches to processBatch and absorbs no row after the N-th flush.
C8_StopsAfterMaxBatches ==
    (args.maxBatches # -1 /\ pc # "done") =>
        /\ batchIndex <= args.maxBatches
        /\ \A i \in 1..Len(trace) :
              trace[i] = "absorb" => BatchesBefore(i) < args.maxBatches

\* C9: when saveCheckpoint is called, and from the --max-batches stop on,
\* every row the run has absorbed has been classified.
C9_SaveAtBatchBoundary ==
    (pc \in {"save", "write"} \/ "stop" \in Range(trace)) => classified = absorbed

C9_Witness ==
    /\ pc = "write"
    /\ saving.kind = "interval"
    /\ checkpointFile.state = "partial"
    /\ Len(absorbed) >= 2 * BATCH_SIZE
    /\ documentItemCount > 0

\* C10: a scan run that ends without an error has written the final
\* checkpoint, holding the aggregates the run ends with, after its last
\* processBatch call and right before the report.
C10_FinalCheckpointBeforeReport ==
    (pc = "exit" /\ outcome \in {"exhausted", "stopped"}) =>
        LET n == Len(trace)
        IN  /\ n >= 3
            /\ trace[n] = "writeReport"
            /\ trace[n - 1] = "saveCheckpoint"
            /\ trace[n - 2] \in {"processBatch", "query:ItemYearDimensionValues"}
            /\ checkpointFile =
                  [state |-> "full",
                   data |-> CheckpointData(lastProcessedId, documentItemCount,
                                           allItemIds, reasonStats, samples)]

C10_Witness ==
    /\ pc = "exit"
    /\ outcome = "stopped"
    /\ documentItemCount > 0
    /\ startFiles.checkpoint.state = "full"
    /\ checkpointFile # startFiles.checkpoint

\* the run has opened the DocumentItems cursor
CursorOpened == "query:DocumentItems" \in Range(trace)

\* the scan run has reached its end without an error
ScanEnded == pc = "exit" /\ outcome \in {"exhausted", "stopped"}

\* C11: the scan cursor never goes back.  The keys a run absorbs ascend and
\* are all greater than the lastDocumentItemId it loaded; lastProcessedId is
\* the loaded value until a row is absorbed and the key of the last absorbed
\* row after; every checkpoint a run writes has a lastDocumentItemId no less
\* than the one of the checkpoint the file held before the write; a run that
\* absorbs no row writes back the lastDocumentItemId it loaded.
C11_CursorMonotone ==
    CursorOpened =>
        LET loaded == checkpoint.data.lastDocumentItemId
        IN  /\ \A i \in 1..(Len(absorbed) - 1) : absorbed[i] < absorbed[i + 1]
            /\ \A i \in 1..Len(absorbed) : absorbed[i] > loaded
            /\ lastProcessedId = IF absorbed = <<>> THEN loaded
                                 ELSE absorbed[Len(absorbed)]
            /\ pc = "write" =>
                  /\ saving.data.lastDocumentItemId = lastProcessedId
                  /\ lastSave.before.state = "full" =>
                        saving.data.lastDocumentItemId
                            >= lastSave.before.data.lastDocumentItemId
            /\ ("saveCheckpoint" \in Range(trace) /\ checkpointFile.state = "full") =>
                  /\ checkpointFile.data.lastDocumentItemId >= loaded
                  /\ checkpointFile.data.lastDocumentItemId <= lastProcessedId
            /\ (ScanEnded /\ absorbed = <<>>) =>
                  checkpointFile.data.lastDocumentItemId = loaded

C11_Witness ==
    /\ CursorOpened
    /\ checkpoint.present
    /\ checkpoint.data.lastDocumentItemId > 0
    /\ absorbed # <<>>
    /\ pc = "write"
    /\ lastSave.before.state = "full"

\* the final checkpoint of the run is being written or has been written
FinalSaveReached ==
    \/ pc \in {"save", "write"} /\ saving.kind = "final"
    \/ pc = "report"
    \/ ScanEnded

\* the places (batch, position) at which key k was handed to processBatch
PlacesOf(k) ==
    {p \in {<<i, j>> : i \in 1..Len(batches), j \in 1..Len(absorbed)} :
        /\ p[2] <= Len(batches[p[1]].rows)
        /\ batches[p[1]].rows[p[2]] = k}

\* C12: flush on drain.  From the moment the final checkpoint is due, every
\* row the run absorbed has been handed to processBatch in exactly one batch
\* and classified, the rows of the last, partial batch included.
C12_FlushOnDrain ==
    FinalSaveReached =>
        /\ classified = absorbed
        /\ \A k \in Range(absorbed) : Cardinality(PlacesOf(k)) = 1
        /\ \A i \in 1..Len(batches) : batches[i].kind \in {"threshold", "drain"}
        /\ batches # <<>> /\ batches[Len(batches)].kind = "drain"

C12_Witness ==
    /\ ScanEnded
    /\ outcome = "exhausted"
    /\ Len(batches) >= 2
    /\ batches[1].kind = "threshold"
    /\ batches[Len(batches)].rows # <<>>
    /\ Len(batches[Len(batches)].itemIds) < BATCH_SIZE

\* the number of events e in the trace of the run
CountOf(e) == Cardinality({i \in 1..Len(trace) : trace[i] = e})

\* the calls of processBatch that were given at least one row
NonEmptyBatches == {i \in 1..Len(batches) : batches[i].rows # <<>>}

\* C13: no empty batch reaches the resolver.  batchIndex and the number of
\* ItemYearDimensionValues lookups both equal the number of processBatch calls
\* that were given at least one row, every lookup follows the entry of a
\* call, and the drain call with an empty buffer (after the input is exhausted
\* or after the --max-batches stop) does no lookup.
C13_NoEmptyBatchResolved ==
    CursorOpened =>
        /\ batchIndex = Cardinality(NonEmptyBatches)
        /\ CountOf("query:ItemYearDimensionValues") = Cardinality(NonEmptyBatches)
        /\ CountOf("processBatch") = Len(batches)
        /\ \A i \in 1..Len(trace) :
              trace[i] = "query:ItemYearDimensionValues" =>
                  i > 1 /\ trace[i - 1] = "processBatch"
        /\ (pc = "save" /\ saving.kind = "final") =>
              (trace[Len(trace)] = "processBatch"
                  <=> batches[Len(batches)].rows = <<>>)

C13_Witness ==
    /\ ScanEnded
    /\ outcome = "stopped"
    /\ batchIndex >= 1
    /\ batches[Len(batches)].kind = "drain"
    /\ batches[Len(batches)].rows = <<>>

\* the non-empty bodies ItemYearDimensionValues records for item id
BodiesOf(id) ==
    {ItemYearDimensionValues[j].bodyOfKnowledgeId : j \in
        {l \in 1..Len(ItemYearDimensionValues) :
            /\ ItemYearDimensionValues[l].itemId = id
            /\ ItemYearDimensionValues[l].bodyOfKnowledgeId # ""}}

\* the calls of processBatch that reached rows.forEach
ResolvedBatches == {i \in NonEmptyBatches : batches[i].kind # "failed"}

\* the rows of batch i that its own resolution makes violations
ViolationsIn(i) ==
    {j \in 1..Len(batches[i].rows) :
        Classify(RowOf(DocumentItems, batches[i].rows[j]), documentRepoMap,
                 repoBodyMap, batches[i].itemYearMap) = "violation"}

RECURSIVE ViolationsUpTo(_)
ViolationsUpTo(n) ==
    IF n = 0 THEN 0
    ELSE ViolationsUpTo(n - 1)
         + (IF n \in ResolvedBatches THEN Cardinality(ViolationsIn(n)) ELSE 0)

\* C14: one lookup per non-empty batch, keyed by the distinct itemIds of the
\* batch.  The itemYearMap of a batch resolves itemIds of that batch only and
\* gives each of them the bodies the collection records for it; the rows of a
\* batch are counted against the map of their own batch; the reference maps
\* stay what the two reference collections made them.
C14_BatchScopedResolution ==
    CursorOpened =>
        /\ CountOf("query:ItemYearDimensionValues") = Cardinality(NonEmptyBatches)
        /\ \A i \in ResolvedBatches :
              LET b == batches[i]
              IN  /\ Range(b.itemIds)
                        = {RowOf(DocumentItems, b.rows[j]).itemId : j \in 1..Len(b.rows)}
                  /\ DOMAIN b.itemYearMap \subseteq Range(b.itemIds)
                  /\ \A id \in Range(b.itemIds) :
                        IF BodiesOf(id) = {} THEN id \notin DOMAIN b.itemYearMap
                        ELSE /\ id \in DOMAIN b.itemYearMap
                             /\ Range(b.itemYearMap[id]) = BodiesOf(id)
                             /\ Len(b.itemYearMap[id]) = Cardinality(BodiesOf(id))
        /\ documentItemCount
              = checkpoint.data.documentItemCount + ViolationsUpTo(Len(batches))
        /\ repoBodyMap = LoadRepoBodyMap
        /\ documentRepoMap = LoadDocumentRepoMap

C14_Witness ==
    /\ CursorOpened
    /\ \E i, j \in ResolvedBatches :
          /\ i < j
          /\ DOMAIN batches[i].itemYearMap # DOMAIN batches[j].itemYearMap
          /\ ViolationsIn(i) # {}
          /\ ViolationsIn(j) # {}

\* the classification policy, stated on the collections: the row with key k
\* has an itemId and a documentId, its document has a repository, the
\* repository has a body, the item has at least one body recorded, and the
\* repository's body is none of them
IsViolation(k) ==
    LET r == DocumentItems[k]
    IN  /\ r.itemId # ""
        /\ r.documentId # ""
        /\ BodiesOf(r.itemId) # {}
        /\ \E i \in 1..Len(Documents), j \in 1..Len(DocumentRepositories) :
              /\ Documents[i]._id = r.documentId
              /\ Documents[i].documentRepoId # ""
              /\ DocumentRepositories[j]._id = Documents[i].documentRepoId
              /\ DocumentRepositories[j].bodyOfKnowledgeId # ""
              /\ DocumentRepositories[j].bodyOfKnowledgeId \notin BodiesOf(r.itemId)

\* the classified rows that the policy makes violations, in order
ViolatingKeys == SelectSeq(classified, IsViolation)

ScenarioRows ==
    [k \in 1..3 |->
        CASE k = 1 -> [itemId |-> "Ia", documentId |-> "Doc1"]
          [] k = 2 -> [itemId |-> "Ib", documentId |-> "Doc1"]
          [] OTHER -> [itemId |-> "Ic", documentId |-> "Doc2"]]

\* the outcome rows.forEach gave the row with key k, in the batch that held it
OutcomeOf(k) ==
    LET i == CHOOSE n \in ResolvedBatches : k \in Range(batches[n].rows)
    IN  Classify(RowOf(DocumentItems, k), documentRepoMap, repoBodyMap,
                 batches[i].itemYearMap)

NoAggregates ==
    [documentItemCount |-> 0, allItemIds |-> <<>>, reasonStats |-> <<>>,
     samples |-> <<>>]

\* what rows.forEach does for row under the batch resolution m when the
\* aggregates are agg, as far as the row decides it: whether it is counted,
\* under which reasons, and the evidence recorded when there is room
EffectOf(agg, row, m) ==
    LET a == ApplyRow(agg, row, documentRepoMap, repoBodyMap, m)
    IN  [counted  |-> a.documentItemCount - agg.documentItemCount,
         item     |-> Range(a.allItemIds) \ Range(agg.allItemIds) \subseteq {row.itemId},
         known    |-> a.documentItemCount > agg.documentItemCount
                          => row.itemId \in Range(a.allItemIds),
         reasons  |-> {a.reasonStats[i].reason : i \in 1..Len(a.reasonStats)}
                          \ {agg.reasonStats[i].reason : i \in 1..Len(agg.reasonStats)}
                          \subseteq {MismatchReason},
         evidence |-> IF Len(a.samples) > Len(agg.samples)
                      THEN {a.samples[Len(a.samples)]} ELSE {}]

\* the two effects are those of one outcome
SameOutcome(e, f) ==
    /\ e.counted = f.counted
    /\ e.item /\ f.item /\ e.known /\ f.known /\ e.reasons /\ f.reasons
    /\ (e.evidence # {} /\ f.evidence # {}) => e.evidence = f.evidence

\* C17: classification determinism.  Whatever the aggregates are (those of
\* the run so far, those loaded from the checkpoint, or none), a row gets the
\* same outcome under the same reference maps and the same batch resolution:
\* counted or not, and with the same evidence when a sample is recorded.
C17_ClassificationDeterminism ==
    CursorOpened =>
        \A k \in DOMAIN DocumentItems, i \in ResolvedBatches :
            LET row == RowOf(DocumentItems, k)
                m == batches[i].itemYearMap
                e == EffectOf(NoAggregates, row, m)
            IN  /\ SameOutcome(e, EffectOf(Agg, row, m))
                /\ e.counted = IF Classify(row, documentRepoMap, repoBodyMap, m)
                                     = "violation" THEN 1 ELSE 0
                /\ e.counted = 1 => e.evidence # {}

\* a violating row whose item is already among the violations, met when the
\* samples are full, beside a row that is excluded
C17_Witness ==
    /\ CursorOpened
    /\ Len(samples) = SAMPLE_LIMIT
    /\ \E k \in DOMAIN DocumentItems, i \in ResolvedBatches :
          LET row == RowOf(DocumentItems, k)
          IN  /\ row.itemId \in Range(allItemIds)
              /\ EffectOf(Agg, row, batches[i].itemYearMap).counted = 1
    /\ \E k \in DOMAIN DocumentItems, i \in ResolvedBatches :
          Classify(RowOf(DocumentItems, k), documentRepoMap, repoBodyMap,
                   batches[i].itemYearMap) = "excluded"

\* per reason: the count and the distinct-item set, as a set
ReasonSets(stats) ==
    {<<stats[i].reason, stats[i].count, Range(stats[i].itemIds)>> : i \in 1..Len(stats)}

\* the aggregates the restore of lines 87-97 makes of the Checkpoint ck
Restored(ck) ==
    [documentItemCount |-> ck.documentItemCount,
     allItemIds        |-> NewSet(ck.allItemIds),
     reasonStats       |-> RestoreReasonStats(ck),
     samples           |-> ck.samples]

\* the aggregates a and b are the same, sets compared as sets
SameAggregates(a, b) ==
    /\ a.documentItemCount = b.documentItemCount
    /\ Range(a.allItemIds) = Range(b.allItemIds)
    /\ Len(a.allItemIds) = Len(b.allItemIds)
    /\ ReasonSets(a.reasonStats) = ReasonSets(b.reasonStats)
    /\ Len(a.reasonStats) = Len(b.reasonStats)
    /\ a.samples = b.samples

\* the count of reason in stats, 0 when stats has no entry for it
CountUnder(stats, reason) ==
    IF \E i \in 1..Len(stats) : stats[i].reason = reason
    THEN stats[CHOOSE i \in 1..Len(stats) : stats[i].reason = reason].count
    ELSE 0

\* C18: checkpoint round trip.  Right after a save, loading the file gives
\* back the aggregates in memory; a run that loaded a checkpoint starts from
\* the aggregates of the file; and the violations it classifies are added to
\* them: the counts grow by their number, the sets by their items, the
\* samples keep the loaded ones in front.
C18_CheckpointRoundTrip ==
    /\ (trace # <<>> /\ trace[Len(trace)] = "saveCheckpoint") =>
          /\ loadCheckpoint(checkpointFile).result = "ok"
          /\ SameAggregates(Restored(loadCheckpoint(checkpointFile).data), Agg)
    /\ (checkpoint.present /\ pc # "exit" /\ batches = <<>>) =>
          SameAggregates(Agg, Restored(startFiles.checkpoint.data))
    /\ (checkpoint.present /\ CursorOpened) =>
          LET old == Restored(startFiles.checkpoint.data)
              v == ViolatingKeys
              ids == {DocumentItems[v[i]].itemId : i \in 1..Len(v)}
          IN  /\ documentItemCount = old.documentItemCount + Len(v)
              /\ Range(allItemIds) = Range(old.allItemIds) \cup ids
              /\ CountUnder(reasonStats, MismatchReason)
                    = CountUnder(old.reasonStats, MismatchReason) + Len(v)
              /\ \A i \in 1..Len(reasonStats) :
                    reasonStats[i].reason = MismatchReason =>
                        Range(reasonStats[i].itemIds) = Range(old.allItemIds) \cup ids
              /\ Len(samples) >= Len(old.samples)
              /\ SubSeq(samples, 1, Len(old.samples)) = old.samples
              /\ Len(samples) = IF Len(old.samples) + Len(v) < SAMPLE_LIMIT
                                THEN Len(old.samples) + Len(v) ELSE SAMPLE_LIMIT

C18_Witness ==
    /\ checkpoint.present
    /\ CursorOpened
    /\ startFiles.checkpoint.data.documentItemCount > 0
    /\ Len(startFiles.checkpoint.data.samples) < SAMPLE_LIMIT
    /\ Len(ViolatingKeys) > 0
    /\ trace[Len(trace)] = "saveCheckpoint"

\* the position of the last event e in the trace, 0 when there is none
LastOf(e) ==
    IF CountOf(e) = 0 THEN 0
    ELSE CHOOSE i \in 1..Len(trace) :
            trace[i] = e /\ \A j \in (i + 1)..Len(trace) : trace[j] # e

\* the buffer holds a batch that processBatch has not been given yet
BatchInProgress == batchRows # <<>> /\ pc \in {"scan", "flush", "drain"}

\* the batches processed since the last checkpoint write of the run (or since
\* its start), and the one in progress
BatchesSinceSave ==
    Cardinality({i \in (LastOf("saveCheckpoint") + 1)..Len(trace) :
                    trace[i] = "query:ItemYearDimensionValues"})
    + (IF BatchInProgress THEN 1 ELSE 0)

\* the itemIds those batches reference, counted per batch
ItemIdsSinceSave ==
    LET since == {i \in 1..Len(batches) :
                     i > Len(batches) - Cardinality(
                            {j \in (LastOf("saveCheckpoint") + 1)..Len(trace) :
                                trace[j] = "processBatch"})}
        RECURSIVE Sum(_)
        Sum(S) == IF S = {} THEN 0
                  ELSE LET i == CHOOSE x \in S : TRUE
                       IN  Len(batches[i].itemIds) + Sum(S \ {i})
    IN  Sum(since) + (IF BatchInProgress THEN Len(batchItemIds) ELSE 0)

\* C19, the bound on the work since the last checkpoint write: at every
\* moment of a scan at most CHECKPOINT_SAVE_INTERVAL batches, referencing at
\* most CHECKPOINT_SAVE_INTERVAL x BATCH_SIZE itemIds, have been processed or
\* are in progress since the run last wrote a checkpoint, and the interval
\* save is due exactly after the CHECKPOINT_SAVE_INTERVAL-th threshold batch.
C19_WorkSinceSaveBound ==
    CursorOpened =>
        /\ BatchesSinceSave <= CHECKPOINT_SAVE_INTERVAL
        /\ ItemIdsSinceSave <= CHECKPOINT_SAVE_INTERVAL * BATCH_SIZE
        /\ (pc = "save" /\ saving.kind = "interval") <=>
              (pc = "save" /\ batchesSinceSave = CHECKPOINT_SAVE_INTERVAL
                  /\ batches[Len(batches)].kind = "threshold")

RECURSIVE BatchCount(_, _)
\* the number of non-empty batches the scan loop and the drain make of the keys cur
BatchCount(cur, itemIds) ==
    IF cur = <<>> THEN (IF itemIds = <<>> THEN 0 ELSE 1)
    ELSE LET ids2 == SetAdd(itemIds, RowOf(DocumentItems, Head(cur)).itemId)
         IN  IF ThresholdReached(Len(ids2))
             THEN 1 + BatchCount(Tail(cur), <<>>)
             ELSE BatchCount(Tail(cur), ids2)

\* the key a run launched now would resume after: that of the checkpoint file
\* when loadCheckpoint returns one, none when it returns null
ResumeFrom ==
    IF loadCheckpoint(checkpointFile).result = "ok"
    THEN loadCheckpoint(checkpointFile).data.lastDocumentItemId
    ELSE 0

NotAfterLastProcessed(k) == k <= lastProcessedId

\* the keys this run has got through that a run launched now would scan again
KeysToRescan ==
    SelectSeq(KeysFrom(1, ResumeFrom, args.startDate, args.endDate),
              NotAfterLastProcessed)

\* C19, as claimed: whenever the run stops, the run that resumes scans again
\* at most CHECKPOINT_SAVE_INTERVAL batches, that is at most
\* CHECKPOINT_SAVE_INTERVAL x BATCH_SIZE itemIds counted per batch, of the rows
\* already scanned.
C19_RescanBound ==
    (CursorOpened /\ loadCheckpoint(checkpointFile).result # "throw") =>
        BatchCount(KeysToRescan, <<>>) <= CHECKPOINT_SAVE_INTERVAL

\* the DocumentItems cursor or a lookup of processBatch has raised an error
ScanError == CursorOpened /\ "error" \in Range(trace)

\* C20: an I/O error during the scan halts the run.  The error is the last
\* event of the run: no row is absorbed, no batch classified, no checkpoint
\* and no report written after it; the rows of the batch whose lookup failed
\* are not classified; the report file is as the run found it and the
\* checkpoint file is the last one the run saved, or the one it found.
C20_ErrorHaltsRun ==
    ScanError =>
        /\ pc = "exit"
        /\ outcome = "error"
        /\ CountOf("error") = 1
        /\ trace[Len(trace)] = "error"
        /\ \A i \in 1..Len(batches) :
              batches[i].kind = "failed" =>
                  /\ i = Len(batches)
                  /\ Range(batches[i].rows) \cap Range(classified) = {}
        /\ documentItemCount
              = checkpoint.data.documentItemCount + Len(ViolatingKeys)
        /\ outputFile = startFiles.output
        /\ checkpointFile = IF "saveCheckpoint" \in Range(trace)
                            THEN [state |-> "full", data |-> lastSave.data]
                            ELSE startFiles.checkpoint

C20_Witness ==
    /\ ScanError
    /\ checkpoint.present
    /\ startFiles.checkpoint.data.documentItemCount > 0
    /\ batches # <<>>
    /\ batches[Len(batches)].kind = "failed"

\* the run found a checkpoint file that holds no complete checkpoint
FoundUnreadableCheckpoint ==
    /\ pc \notin {"done", "load"}
    /\ startFiles.checkpoint.state \in {"empty", "partial"}

C21_TruncatedCheckpointFatal ==
    (pc \notin {"done", "load"} /\ startFiles.checkpoint.state = "partial") =>
        /\ pc = "exit"
        /\ outcome = "error"
        /\ Range(trace) \cap Queries = {}
        /\ absorbed = <<>>
        /\ checkpointFile = startFiles.checkpoint
        /\ outputFile = startFiles.output

\* a reference collection could not be loaded
ReferenceError ==
    /\ "error" \in Range(trace)
    /\ ~CursorOpened
    /\ Range(trace) \cap {"query:DocumentRepositories", "query:Documents"} # {}

\* C22: reference loading is all-or-nothing and precedes the scan.  Once the
\* DocumentItems cursor is open both maps hold every row of their collection;
\* when loading one of them fails the run ends with the error, no row is
\* absorbed, and the checkpoint file and the report are as the run found them.
C22_ReferencesAllOrNothing ==
    /\ (CursorOpened \/ absorbed # <<>>) =>
            /\ repoBodyMap = LoadRepoBodyMap
            /\ documentRepoMap = LoadDocumentRepoMap
            /\ \A i \in 2..Len(trace) :
                   trace[i] = "error" =>
                       trace[i - 1] \notin {"query:DocumentRepositories",
                                            "query:Documents"}
    /\ ReferenceError =>
            /\ pc = "exit"
            /\ outcome = "error"
            /\ absorbed = <<>>
            /\ classified = <<>>
            /\ "query:DocumentItems" \notin Range(trace)
            /\ checkpointFile = startFiles.checkpoint
            /\ outputFile = startFiles.output

\* the Documents cursor failed half way, in a run that had a checkpoint and a
\* report to leave alone
C22_Witness ==
    /\ ReferenceError
    /\ repoBodyMap = LoadRepoBodyMap
    /\ documentRepoMap # LoadDocumentRepoMap
    /\ documentRepoMap # NoFunction
    /\ startFiles.checkpoint.state = "full"
    /\ startFiles.output # <<>>

\* C23: bounded memory.  The rows held in the batch buffer are bounded by the
\* batch threshold whatever the size of the collection: the buffer holds at
\* most BATCH_SIZE rows, and in any case never every row of a collection
\* that has more rows than that.
C23_BufferBoundedByBatchSize ==
    \/ Len(batchRows) <= BATCH_SIZE
    \/ Len(batchRows) < Cardinality(DOMAIN DocumentItems)

\* the key the run resumes after: lastDocumentItemId of the loaded checkpoint
LoadedLast == IF checkpoint.present THEN checkpoint.data.lastDocumentItemId ELSE 0

\* C24: the date bounds combine with the resume filter.  Every row the run
\* has absorbed, and every row its cursor has still to yield, has a key above
\* the loaded lastDocumentItemId, addedOn >= --start-date when that flag is
\* given, and addedOn < --end-date when that flag is given.
C24_DateAndResumeFilters ==
    \A k \in Range(absorbed) \cup Range(cursor) :
        /\ LoadedLast # 0 => k > LoadedLast
        /\ args.startDate # 0 => AddedOn(k) >= args.startDate
        /\ args.endDate # 0 => AddedOn(k) < args.endDate

\* a resumed run with --start-date has absorbed a row; a later row is kept
\* out by the date bound, an earlier row inside the bound by the resume filter
C24_Witness ==
    /\ LoadedLast # 0
    /\ args.startDate # 0
    /\ absorbed # <<>>
    /\ cursor = <<>>
    /\ \E k \in DOMAIN DocumentItems :
            /\ k > LoadedLast
            /\ AddedOn(k) < args.startDate
            /\ k \notin Range(absorbed)
    /\ \E k \in DOMAIN DocumentItems :
            /\ k <= LoadedLast
            /\ AddedOn(k) >= args.startDate
            /\ k \notin Range(absorbed)

\* the row with key k satisfies the date flags of the launches
InDateRange(k) ==
    /\ args.startDate # 0 => AddedOn(k) >= args.startDate
    /\ args.endDate # 0 => AddedOn(k) < args.endDate

\* the rows up to key last that are in the date range and violate the policy
ViolationsThrough(last) ==
    {k \in DOMAIN DocumentItems : k <= last /\ InDateRange(k) /\ IsViolation(k)}

\* the counters and sets of the Checkpoint d are those of the violating rows V,
\* each counted once
AggregatesOf(d, V) ==
    LET items == {ItemIdOf(k) : k \in V}
    IN  /\ d.documentItemCount = Cardinality(V)
        /\ Range(d.allItemIds) = items
        /\ Len(d.allItemIds) = Cardinality(items)
        /\ Len(d.reasonStats) = IF V = {} THEN 0 ELSE 1
        /\ \A i \in 1..Len(d.reasonStats) :
              /\ d.reasonStats[i].reason = MismatchReason
              /\ d.reasonStats[i].count = Cardinality(V)
              /\ Range(d.reasonStats[i].itemIds) = items
              /\ Len(d.reasonStats[i].itemIds) = Cardinality(items)

\* C25: checkpoint consistency.  Whatever runs, stops and kills came before,
\* a checkpoint on disk holds the counters and sets of exactly the rows in the
\* date range with key <= its lastDocumentItemId, each classified once.
C25_CheckpointConsistency ==
    checkpointFile.state = "full" =>
        AggregatesOf(checkpointFile.data,
                     ViolationsThrough(checkpointFile.data.lastDocumentItemId))

\* a resumed run has written a checkpoint that covers violations of the run
\* before it and of its own, with a violating row still ahead or out of range
C25_Witness ==
    /\ pc = "report"
    /\ checkpointFile.state = "full"
    /\ LoadedLast # 0
    /\ ViolationsThrough(LoadedLast) # {}
    /\ ViolationsThrough(checkpointFile.data.lastDocumentItemId)
            # ViolationsThrough(LoadedLast)
    /\ \E k \in DOMAIN DocumentItems :
            IsViolation(k) /\ k \notin ViolationsThrough(checkpointFile.data.lastDocumentItemId)

\* a run launched after a kill has scanned to the end of the input
RunAfterKillEnded ==
    /\ pc = "exit"
    /\ outcome = "exhausted"
    /\ prevRun.outcome = "killed"

\* C26: no double counting after a crash.  When the run launched after a kill
\* has scanned to the end, its counts and the sizes of its distinct sets, in
\* memory and in the checkpoint it wrote, are those of one uninterrupted scan
\* of the collection.
C26_NoDoubleCountAfterKill ==
    RunAfterKillEnded =>
        LET u == UninterruptedRun(DocumentItems, args.startDate, args.endDate)
            d == checkpointFile.data
        IN  /\ documentItemCount = u.documentItemCount
            /\ Len(allItemIds) = Len(u.allItemIds)
            /\ ReasonCounts(reasonStats) = ReasonCounts(u.reasonStats)
            /\ checkpointFile.state = "full"
            /\ d.documentItemCount = u.documentItemCount
            /\ Len(d.allItemIds) = Len(u.allItemIds)
            /\ ReasonCounts(d.reasonStats) = ReasonCounts(u.reasonStats)

\* the killed run had saved a checkpoint that counts violations; the run
\* after it resumed from that checkpoint and counted a violation of its own
C26_Witness ==
    /\ RunAfterKillEnded
    /\ LoadedLast # 0
    /\ checkpoint.data.documentItemCount > 0
    /\ \E k \in Range(classified) : IsViolation(k)
    /\ documentItemCount > checkpoint.data.documentItemCount

\* the row with key k is in the date range and violates the policy
InRangeViolation(k) == InDateRange(k) /\ IsViolation(k)

\* the violating rows of the collection in the date range, by ascending key
ViolationSequence ==
    SelectSeq([k \in 1..Len(DocumentItems) |-> k], InRangeViolation)

Min(a, b) == IF a < b THEN a ELSE b

\* smp records the first min(SAMPLE_LIMIT, count) rows of the violation
\* sequence, in its order, one record for each
IsViolationPrefix(smp, count) ==
    /\ Len(smp) = Min(SAMPLE_LIMIT, count)
    /\ smp # <<>> =>
           LET v == ViolationSequence
           IN  /\ Len(smp) <= Len(v)
               /\ \A i \in 1..Len(smp) :
                     /\ smp[i].documentItemId = v[i]
                     /\ smp[i].itemId = ItemIdOf(v[i])

\* C27: the samples are the prefix of the violation sequence.  In memory and
\* in every checkpoint on disk, after any stops, kills and resumes, samples
\* holds the first min(SAMPLE_LIMIT, documentItemCount) violating rows by
\* ascending key.
C27_SamplesArePrefix ==
    /\ IsViolationPrefix(samples, documentItemCount)
    /\ checkpointFile.state = "full" =>
           IsViolationPrefix(checkpointFile.data.samples,
                             checkpointFile.data.documentItemCount)

\* a resumed run found one sample in the checkpoint, filled the buffer and
\* then counted a violation that found no room
C27_Witness ==
    /\ LoadedLast # 0
    /\ Len(checkpoint.data.samples) = 1
    /\ Len(samples) = SAMPLE_LIMIT
    /\ documentItemCount > SAMPLE_LIMIT
    /\ samples[SAMPLE_LIMIT].documentItemId \in Range(classified)

RECURSIVE SumOfCounts(_)
\* the sum of the per-reason counts
SumOfCounts(stats) ==
    IF stats = <<>> THEN 0 ELSE Head(stats).count + SumOfCounts(Tail(stats))

\* the count is the sum of the per-reason counts, the item set the union of
\* the per-reason item sets, and each reason has between 1 and count items
AggregatesConsistent(count, itemIds, stats) ==
    /\ count = SumOfCounts(stats)
    /\ Range(itemIds) = UNION {Range(stats[i].itemIds) : i \in 1..Len(stats)}
    /\ \A i \in 1..Len(stats) :
          /\ Cardinality(Range(stats[i].itemIds)) >= 1
          /\ Cardinality(Range(stats[i].itemIds)) <= stats[i].count
          /\ Len(stats[i].itemIds) = Cardinality(Range(stats[i].itemIds))

\* C28: aggregate consistency.  In every state, and in every checkpoint on
\* disk, documentItemCount is the sum of the per-reason counts, allItemIds is
\* the union of the per-reason itemId sets, and every reason has at least one
\* item and at most as many items as it has occurrences.
C28_AggregateConsistency ==
    /\ AggregatesConsistent(documentItemCount, allItemIds, reasonStats)
    /\ checkpointFile.state = "full" =>
           AggregatesConsistent(checkpointFile.data.documentItemCount,
                                checkpointFile.data.allItemIds,
                                checkpointFile.data.reasonStats)

\* a resumed run has written a checkpoint in which a reason has two items and
\* more occurrences than items, some of them restored and some its own
C28_Witness ==
    /\ pc = "report"
    /\ LoadedLast # 0
    /\ checkpoint.data.documentItemCount > 0
    /\ checkpointFile.state = "full"
    /\ Len(checkpointFile.data.reasonStats) = 1
    /\ Len(checkpointFile.data.reasonStats[1].itemIds) = 2
    /\ checkpointFile.data.reasonStats[1].count > 2
    /\ checkpointFile.data.documentItemCount > checkpoint.data.documentItemCount

\* a --finalize-only run has written its report from the final checkpoint of
\* the scan run before it, whose report it found in the output file
FinalizeAfterScanEnded ==
    /\ pc = "exit"
    /\ outcome = "finalized"
    /\ prevRun.outcome \in {"exhausted", "stopped"}

\* the report without its query-time line
WithoutQueryTime(report) == SelectSeq(report, IsNotQueryTime)

\* C29: report agreement between the modes.  The report a --finalize-only
\* run writes from the final checkpoint of a scan run is, apart from the
\* query-time line, the report that scan run wrote, whatever the aggregates.
C29_ReportAgreement ==
    FinalizeAfterScanEnded =>
        WithoutQueryTime(outputFile) = WithoutQueryTime(startFiles.output)

\* C29, the part that holds: the two reports agree when the scan counted at
\* least one violation.
C29_AgreementWithViolations ==
    (FinalizeAfterScanEnded /\ documentItemCount > 0) =>
        WithoutQueryTime(outputFile) = WithoutQueryTime(startFiles.output)

\* the row with key k satisfies the date flags of the run before this one
InPreviousDateRange(k) ==
    /\ prevRun.startDate # 0 => AddedOn(k) >= prevRun.startDate
    /\ prevRun.endDate # 0 => AddedOn(k) < prevRun.endDate

\* the second run of the sequence has scanned to the end of its input
SecondRunExhausted ==
    /\ runs = 2
    /\ pc = "exit"
    /\ outcome = "exhausted"

\* C30: coverage under date bounds across runs.  When the second run of a
\* sequence has scanned to the end, every row inside its date bounds has been
\* classified: by this run, or else by the first run, which classified no row
\* outside its own date bounds.
C30_CoverageUnderDateBounds ==
    SecondRunExhausted =>
        \A k \in DOMAIN DocumentItems :
            InDateRange(k) => k \in Range(classified) \/ InPreviousDateRange(k)

\* C30, the part that holds: a run that scans to the end has classified
\* every row inside its date bounds above the key it resumed after.
C30_CoverageAboveLoadedKey ==
    (pc = "exit" /\ outcome = "exhausted") =>
        \A k \in DOMAIN DocumentItems :
            (InDateRange(k) /\ k > LoadedLast) => k \in Range(classified)

====
